---- MODULE Spec2Model ----
(***************************************************************************)
(* A model of src/app.py: the Ultravox-Twilio call dashboard.              *)
(*                                                                         *)
(* Text that the program scans or rewrites (prompt templates, customer     *)
(* values, message roles) is a sequence of one-character strings, so that  *)
(* str.replace is modelled by what it does.  Opaque text (ids, URLs,       *)
(* error messages, secret values) is a TLA+ string.                        *)
(***************************************************************************)
EXTENDS Integers, Sequences, FiniteSets, TLC

VARIABLES
    \* ---- prompt formatting (get_formatted_prompt) ----
    prompt_template,    \* the template handed to get_formatted_prompt
    customer_data,      \* the dict handed to it: a sequence of [key, value], insertion order
    formatted_prompt,   \* its return value
    fmt_pc,             \* "call" before the call, "done" after it
    \* ---- the dashboard session (main and initiate_call) ----
    secrets,            \* st.secrets["secrets"]: secret name -> None, "" or a value
    customer_info,      \* call_system.customer_info, loaded from call_config.json
    custom_params,      \* st.session_state.custom_params
    call_history,       \* st.session_state.call_history
    session_ids,        \* st.session_state.ultravox_call_id / twilio_call_sid, once set
    pc,                 \* "idle", or where the running initiate_call stands: "post", "dial"
    call,               \* the locals of the running 'Initiate Call' handler
    netlog,             \* the requests the last initiate_call has sent, with their outcomes
    result,             \* what the last initiate_call returned
    ui,                 \* what the last script run rendered
    \* ---- get_ultravox_config ----
    vc_args,            \* the arguments of the call
    vc_config,          \* the dict it returned
    vc_pc,              \* "call" before the call, "done" after it
    \* ---- fetch_transcript ----
    max_wait_seconds,   \* the argument max_wait_seconds
    poll_i,             \* the loop variable i: iterations begun so far
    poll_pc,            \* "loop", "status" (after the sleep), "messages", "returned", "raised"
    poll_log,           \* the sleeps and requests of the call so far, in order
    call_details,       \* the status response that reported ended
    poll_result         \* what fetch_transcript returned

fmtVars == <<prompt_template, customer_data, formatted_prompt, fmt_pc>>

appVars == <<secrets, customer_info, custom_params, call_history, session_ids,
             pc, call, netlog, result, ui>>

voiceVars == <<vc_args, vc_config, vc_pc>>

pollVars == <<max_wait_seconds, poll_i, poll_pc, poll_log, call_details, poll_result>>

vars == <<prompt_template, customer_data, formatted_prompt, fmt_pc,
          secrets, customer_info, custom_params, call_history, session_ids,
          pc, call, netlog, result, ui,
          vc_args, vc_config, vc_pc,
          max_wait_seconds, poll_i, poll_pc, poll_log, call_details, poll_result>>

(***************************************************************************)
(* Python values and strings                                               *)
(***************************************************************************)

\* Python's None; distinct from every string of the model.
None == "<None>"

\* A Python str value / int value of a dict.
StrVal(s) == [t |-> "str", v |-> s]
IntVal(n) == [t |-> "int", v |-> n]

Digit(d) == CASE d = 0 -> "0" [] d = 1 -> "1" [] d = 2 -> "2" [] d = 3 -> "3"
              [] d = 4 -> "4" [] d = 5 -> "5" [] d = 6 -> "6" [] d = 7 -> "7"
              [] d = 8 -> "8" [] d = 9 -> "9"

RECURSIVE Digits(_)
Digits(n) == IF n < 10 THEN <<Digit(n)>> ELSE Digits(n \div 10) \o <<Digit(n % 10)>>

\* str(value): a str is itself, an int is its decimal digits.
PyStr(val) == IF val.t = "int"
              THEN (IF val.v < 0 THEN <<"-">> \o Digits(-val.v) ELSE Digits(val.v))
              ELSE val.v

\* old occurs in s at position i.
OccursAt(s, i, old) ==
    /\ i + Len(old) - 1 <= Len(s)
    /\ \A j \in 1..Len(old) : s[i + j - 1] = old[j]

\* s.replace(old, new) for a non-empty old: the non-overlapping occurrences of
\* old, found scanning left to right, are replaced; the result is not rescanned.
RECURSIVE ReplaceFrom(_, _, _, _)
ReplaceFrom(s, i, old, new) ==
    IF i > Len(s) THEN <<>>
    ELSE IF OccursAt(s, i, old)
         THEN new \o ReplaceFrom(s, i + Len(old), old, new)
         ELSE <<s[i]>> \o ReplaceFrom(s, i + 1, old, new)

StrReplace(s, old, new) == ReplaceFrom(s, 1, old, new)

(***************************************************************************)
(* get_formatted_prompt                                                    *)
(***************************************************************************)

\* f"{{{{{key}}}}}": two opening braces, the key, two closing braces.
Placeholder(key) == <<"{", "{">> \o key \o <<"}", "}">>

\* One iteration of the loop over customer_data.items().
FormatStep(formatted, item) ==
    StrReplace(formatted, Placeholder(item.key), PyStr(item.value))

RECURSIVE FormatLoop(_, _, _)
FormatLoop(formatted, data, i) ==
    IF i > Len(data) THEN formatted
    ELSE FormatLoop(FormatStep(formatted, data[i]), data, i + 1)

get_formatted_prompt(template, data) == FormatLoop(template, data, 1)

(***************************************************************************)
(* Dicts                                                                   *)
(***************************************************************************)

\* d.get(k, default) of a dict with string keys (a function on its keys).
Get(d, k, default) == IF k \in DOMAIN d THEN d[k] ELSE default

\* Python truth of None / a str.
Truthy(v) == v # None /\ v # ""

\* An insertion-ordered dict with text keys is a sequence of [key, value] items.
HasKey(d, k) == \E i \in 1..Len(d) : d[i].key = k

\* d[k] = v: an existing key keeps its place, a new key goes last.
DictSet(d, k, v) ==
    IF HasKey(d, k)
    THEN [i \in 1..Len(d) |-> IF d[i].key = k THEN [key |-> k, value |-> v] ELSE d[i]]
    ELSE Append(d, [key |-> k, value |-> v])

(***************************************************************************)
(* validate_credentials                                                    *)
(***************************************************************************)

RequiredNames == {"TWILIO_ACCOUNT_SID", "TWILIO_AUTH_TOKEN", "ULTRAVOX_API_KEY",
                  "ELEVENLABS_API_KEY"}
OptionalNames == {"OPENAI_API_KEY", "ANTHROPIC_API_KEY", "GOOGLE_API_KEY"}

\* The test "is None" in place of "not": an empty secret passes for set.
AppendIfNone(list, s, name) == IF s[name] = None THEN Append(list, name) ELSE list

\* "if not <secret>: <list>.append(name)"
AppendIfUnset(list, s, name) == IF ~Truthy(s[name]) THEN Append(list, name) ELSE list

validate_credentials(s) ==
    LET m1 == AppendIfUnset(<<>>, s, "TWILIO_ACCOUNT_SID")
        m2 == AppendIfUnset(m1, s, "TWILIO_AUTH_TOKEN")
        m3 == AppendIfUnset(m2, s, "ULTRAVOX_API_KEY")
        m4 == AppendIfUnset(m3, s, "ELEVENLABS_API_KEY")
        o1 == AppendIfUnset(<<>>, s, "OPENAI_API_KEY")
        o2 == AppendIfUnset(o1, s, "ANTHROPIC_API_KEY")
        o3 == AppendIfUnset(o2, s, "GOOGLE_API_KEY")
    IN  [missing |-> m4, optional_missing |-> o3]

(***************************************************************************)
(* get_ultravox_config                                                     *)
(***************************************************************************)

\* The elevenlabs branch without line 141: the built-in voice stays in the request.
get_ultravox_config_voice_kept(system_prompt, voice_config, model, temperature) ==
    LET config == [ systemPrompt |-> system_prompt,
                    model |-> model,
                    temperature |-> temperature,
                    firstSpeakerSettings |-> [user |-> <<>>],
                    medium |-> [twilio |-> <<>>],
                    voice |-> Get(voice_config, "voice", "Maansvi") ]
    IN  IF Get(voice_config, "provider", None) = "elevenlabs"
        THEN config @@ [ externalVoice |-> [ elevenLabs |->
                            [ voiceId |-> Get(voice_config, "voiceId", "21m00Tcm4TlvDq8ikWAM"),
                              model |-> Get(voice_config, "model", "eleven_turbo_v2_5") ] ] ]
        ELSE config

get_ultravox_config(system_prompt, voice_config, model, temperature) ==
    LET config == [ systemPrompt |-> system_prompt,
                    model |-> model,
                    temperature |-> temperature,
                    firstSpeakerSettings |-> [user |-> <<>>],
                    medium |-> [twilio |-> <<>>] ]
    IN  IF Get(voice_config, "provider", None) = "elevenlabs"
        THEN config @@ [ voice |-> None,
                         externalVoice |-> [ elevenLabs |->
                            [ voiceId |-> Get(voice_config, "voiceId", "21m00Tcm4TlvDq8ikWAM"),
                              model |-> Get(voice_config, "model", "eleven_turbo_v2_5") ] ] ]
        ELSE config @@ [ voice |-> Get(voice_config, "voice", "Maansvi") ]

(***************************************************************************)
(* initiate_call                                                           *)
(***************************************************************************)

ultravox_api_url == "https://api.ultravox.ai/api/calls"

\* The except clause of initiate_call: any exception becomes a failure result.
Failure(msg) == [success |-> FALSE, error |-> msg]

NoJoinUrlError == "Ultravox API did not return a valid joinUrl."

\* initiate_call without the joinUrl test of lines 170-171.
SessionStepUnchecked(o) ==
    IF o.kind # "ok" THEN [raised |-> TRUE, error |-> o.msg]
    ELSE [ raised |-> FALSE,
           ultravox_join_url |-> Get(o.body, "joinUrl", None),
           ultravox_call_id |-> Get(o.body, "callId", None) ]

\* Lines 164-171: the POST, raise_for_status, response.json() and the joinUrl
\* test. o is what the voice-session API did: a transport error, an error
\* status, a body that is no JSON, or a JSON body.
SessionStep(o) ==
    IF o.kind # "ok" THEN [raised |-> TRUE, error |-> o.msg]
    ELSE IF ~Truthy(Get(o.body, "joinUrl", None))
         THEN [raised |-> TRUE, error |-> NoJoinUrlError]
         ELSE [ raised |-> FALSE,
                ultravox_join_url |-> o.body["joinUrl"],
                ultravox_call_id |-> Get(o.body, "callId", None) ]

\* Lines 176-180: <Response><Connect><Stream url=.../></Connect></Response>
Twiml(join_url) == [Response |-> [Connect |-> [Stream |-> [url |-> join_url]]]]

\* Lines 182-199: what initiate_call returns once calls.create has answered.
TwilioStep(o, ultravox_call_id) ==
    IF o.kind # "ok" THEN Failure(o.msg)
    ELSE [ success |-> TRUE,
           ultravox_call_id |-> ultravox_call_id,
           twilio_call_sid |-> o.sid,
           message |-> <<"Call initiated successfully! Twilio SID: ", o.sid>> ]

(***************************************************************************)
(* main: the handlers of the dashboard                                     *)
(***************************************************************************)

KeyName == <<"n", "a", "m", "e">>
KeyPhone == <<"p", "h", "o", "n", "e", "_", "n", "u", "m", "b", "e", "r">>
KeyGender == <<"g", "e", "n", "d", "e", "r">>

RECURSIVE AddCustomParams(_, _, _)
AddCustomParams(d, params, i) ==
    IF i > Len(params) THEN d
    ELSE AddCustomParams(DictSet(d, params[i].key, StrVal(params[i].value)), params, i + 1)

\* Lines 432-441 (and 361-370): the config's customer_info, then the three
\* form fields, then the custom parameters in the order they were added.
BuildCustomerData(info, w, params) ==
    AddCustomParams(
        DictSet(DictSet(DictSet(info, KeyName, StrVal(w.customer_name)),
                        KeyPhone, StrVal(w.destination_phone)),
                KeyGender, StrVal(w.customer_gender)),
        params, 1)

\* Initiation refused only when all four required secrets are missing.
InitiationAllowedUnlessAllMissing(missing_creds) == Len(missing_creds) < 4

\* Line 430: "if not missing_creds".
InitiationAllowed(missing_creds) == missing_creds = <<>>

\* Lines 422-428: the messages about missing keys.
CredentialNotices(v) ==
    (IF v.missing # <<>> THEN <<[kind |-> "error_missing", names |-> v.missing]>> ELSE <<>>)
    \o (IF v.optional_missing # <<>>
        THEN <<[kind |-> "warning_optional", names |-> v.optional_missing]>> ELSE <<>>)

\* Lines 462-469.
CallEntry(res, w, now) ==
    [ call_id |-> res.ultravox_call_id,
      twilio_sid |-> res.twilio_call_sid,
      timestamp |-> now,
      customer_name |-> w.customer_name,
      destination_phone |-> w.destination_phone,
      status |-> "initiated" ]

\* The record appended without looking at result["success"].
HistoryAfterUnconditional(history, res, w, now) ==
    Append(history, [ call_id |-> Get(res, "ultravox_call_id", None),
                      twilio_sid |-> Get(res, "twilio_call_sid", None),
                      timestamp |-> now,
                      customer_name |-> w.customer_name,
                      destination_phone |-> w.destination_phone,
                      status |-> "initiated" ])

\* The record put at the head of the list, the order the history is shown in.
HistoryAfterNewestFirst(history, res, w, now) ==
    IF res.success THEN <<CallEntry(res, w, now)>> \o history ELSE history

\* Lines 456-472: what the handler does to call_history with the result.
HistoryAfter(history, res, w, now) ==
    IF res.success THEN Append(history, CallEntry(res, w, now)) ELSE history

\* Lines 458-459.
SessionIdsAfter(ids, res) ==
    IF res.success
    THEN [ultravox_call_id |-> res.ultravox_call_id, twilio_call_sid |-> res.twilio_call_sid]
    ELSE ids

\* Lines 457 and 472.
ResultNotice(res) ==
    IF res.success THEN [kind |-> "success", text |-> res.message]
    ELSE [kind |-> "error", text |-> <<"Call failed: ", res.error>>]

\* One script run renders the credential status (line 383) and whatever the
\* handler of the pressed button has shown; button is the st.button that
\* returned True in this run ("none" on a plain load or after st.rerun()).
Render(s, button, shown) ==
    [ required_status |-> validate_credentials(s).missing,
      optional_status |-> validate_credentials(s).optional_missing,
      button |-> button,
      shown |-> shown ]

NoResult == [returned |-> FALSE]
NoCall == [running |-> FALSE]
NoIds == [set |-> FALSE]

(***************************************************************************)
(* The inputs of the prompt-formatting specification                       *)
(***************************************************************************)

MaxPieces == 2
MaxKeys == 2

KeyA == <<"a">>
KeyB == <<"b">>
KeyC == <<"c">>

\* The keys a mapping may hold; KeyC never is one.
FmtKeys == {KeyA, KeyB}

FmtValues == { StrVal(<<"x">>), StrVal(<<"b">>), StrVal(Placeholder(KeyA)),
               StrVal(Placeholder(KeyB)), IntVal(42) }

FmtPieces == { Placeholder(KeyA), Placeholder(KeyB), Placeholder(KeyC),
               <<"x">>, <<"{", "{">>, <<"}", "}">> }

RECURSIVE Concat(_)
Concat(ps) == IF ps = <<>> THEN <<>> ELSE Head(ps) \o Concat(Tail(ps))

FmtTemplates ==
    { Concat(ps) : ps \in UNION { [1..n -> FmtPieces] : n \in 0..MaxPieces } }

\* dicts: sequences of items with pairwise distinct keys.
DistinctKeys(d) == \A i, j \in 1..Len(d) : d[i].key = d[j].key => i = j

FmtMappings ==
    { d \in UNION { [1..n -> [key : FmtKeys, value : FmtValues]] : n \in 0..MaxKeys } :
        DistinctKeys(d) }

FmtInit ==
    /\ prompt_template \in FmtTemplates
    /\ customer_data \in FmtMappings
    /\ formatted_prompt = <<>>
    /\ fmt_pc = "call"

\* The formatter at rest, for the specifications of the other parts.
FmtIdle ==
    /\ prompt_template = <<>>
    /\ customer_data = <<>>
    /\ formatted_prompt = <<>>
    /\ fmt_pc = "done"

FormatPrompt ==
    /\ fmt_pc = "call"
    /\ formatted_prompt' = get_formatted_prompt(prompt_template, customer_data)
    /\ fmt_pc' = "done"
    /\ UNCHANGED <<prompt_template, customer_data>>
    /\ UNCHANGED <<appVars, voiceVars, pollVars>>

(***************************************************************************)
(* The dashboard session                                                   *)
(***************************************************************************)

MaxParams == 2
MaxCalls == 2

\* Every way the secrets may be set: a required secret absent, empty or set.
AllSecretSets ==
    { r @@ o : r \in [RequiredNames -> {None, "", "set"}],
               o \in [OptionalNames -> {None, "set"}] }

SecretSets == AllSecretSets

\* call_config.json: one customer.
CustomerInfos ==
    { << [key |-> KeyName, value |-> StrVal(<<"A", "m", "i", "t">>)],
         [key |-> KeyA, value |-> IntVal(500)] >> }

\* What the form holds when a button is pressed.
UiVoiceConfigs ==
    { [provider |-> "elevenlabs", voiceId |-> "z3L1naUiX6l4xiMWzigO",
       model |-> "eleven_turbo_v2_5"],
      [provider |-> "built-in", voice |-> "Maansvi"] }

UiPrompts ==
    { <<"H", "i", " ">> \o Placeholder(KeyName) \o <<" ">> \o Placeholder(KeyA),
      Placeholder(KeyC) }

TemperatureTenths == 3

Widgets ==
    [ destination_phone : {<<"+", "9", "1">>},
      twilio_phone : {"+16416663498"},
      customer_name : {<<"R", "a", "v", "i">>},
      customer_gender : {<<"M", "a", "l", "e">>},
      voice_config : UiVoiceConfigs,
      temperature : {TemperatureTenths},
      system_prompt : UiPrompts ]

ParamKeyInputs == {<<>>, KeyA, KeyName}
ParamValueInputs == {<<>>, <<"7">>}

\* datetime.now(), formatted.
Timestamps == {"2026-01-01 10:00:00", "2026-01-01 10:00:01"}

\* What the voice-session API may do with the POST.
SessionOutcomes ==
    { [kind |-> "connection_error", msg |-> "ConnectionError: connection refused"],
      [kind |-> "http_error", msg |-> "401 Client Error: Unauthorized"],
      [kind |-> "invalid_json", msg |-> "Expecting value: line 1 column 1 (char 0)"],
      [kind |-> "ok", body |-> [joinUrl |-> "wss://join/1", callId |-> "call-1"]],
      [kind |-> "ok", body |-> [joinUrl |-> "wss://join/2"]],
      [kind |-> "ok", body |-> [joinUrl |-> "", callId |-> "call-1"]],
      [kind |-> "ok", body |-> [callId |-> "call-1"]] }

\* What the telephony API may do with calls.create.
TwilioOutcomes ==
    { [kind |-> "rest_error", msg |-> "HTTP 400 error: Unable to create record"],
      [kind |-> "ok", sid |-> "CA1"] }

AppInit ==
    /\ secrets \in SecretSets
    /\ customer_info \in CustomerInfos
    /\ custom_params = <<>>
    /\ call_history = <<>>
    /\ session_ids = NoIds
    /\ pc = "idle"
    /\ call = NoCall
    /\ netlog = <<>>
    /\ result = NoResult
    /\ ui = Render(secrets, "none", <<>>)

\* The dashboard at rest, for the specifications of the other parts.
AppIdle ==
    /\ secrets = [n \in RequiredNames \cup OptionalNames |-> None]
    /\ customer_info = <<>>
    /\ custom_params = <<>>
    /\ call_history = <<>>
    /\ session_ids = NoIds
    /\ pc = "idle"
    /\ call = NoCall
    /\ netlog = <<>>
    /\ result = NoResult
    /\ ui = Render(secrets, "none", <<>>)

\* Lines 332-335: 'Add Parameter' with the two text inputs, then st.rerun().
AddParameter(param_key, param_value) ==
    /\ pc = "idle"
    /\ Len(custom_params) < MaxParams
    /\ custom_params' = IF param_key # <<>> /\ param_value # <<>>
                        THEN Append(custom_params, [key |-> param_key, value |-> param_value])
                        ELSE custom_params
    /\ ui' = Render(secrets, "none", <<>>)
    /\ netlog' = <<>>
    /\ result' = NoResult
    /\ UNCHANGED <<secrets, customer_info, call_history, session_ids, pc, call>>
    /\ UNCHANGED <<fmtVars, voiceVars, pollVars>>

\* Lines 347-349: 'Remove' of the i-th parameter, then st.rerun().
RemoveParameter(i) ==
    /\ pc = "idle"
    /\ i \in 1..Len(custom_params)
    /\ custom_params' = SubSeq(custom_params, 1, i - 1)
                            \o SubSeq(custom_params, i + 1, Len(custom_params))
    /\ ui' = Render(secrets, "none", <<>>)
    /\ netlog' = <<>>
    /\ result' = NoResult
    /\ UNCHANGED <<secrets, customer_info, call_history, session_ids, pc, call>>
    /\ UNCHANGED <<fmtVars, voiceVars, pollVars>>

\* Lines 359-375: 'Preview Formatted Prompt'.
PreviewPrompt(w) ==
    /\ pc = "idle"
    /\ ui' = Render(secrets, "preview",
                <<[ kind |-> "preview",
                    text |-> get_formatted_prompt(w.system_prompt,
                                BuildCustomerData(customer_info, w, custom_params)) ]>>)
    /\ netlog' = <<>>
    /\ result' = NoResult
    /\ UNCHANGED <<secrets, customer_info, custom_params, call_history, session_ids, pc, call>>
    /\ UNCHANGED <<fmtVars, voiceVars, pollVars>>

\* Lines 419-454: 'Initiate Call' up to the point where initiate_call sends
\* its first request; with a required secret missing the handler ends here.
InitiateCall(w) ==
    /\ pc = "idle"
    /\ Len(call_history) < MaxCalls
    /\ LET v == validate_credentials(secrets)
           prompt == get_formatted_prompt(w.system_prompt,
                        BuildCustomerData(customer_info, w, custom_params))
       IN  /\ ui' = Render(secrets, "initiate", CredentialNotices(v))
           /\ IF InitiationAllowed(v.missing)
              THEN /\ pc' = "post"
                   /\ call' = [ running |-> TRUE,
                                widgets |-> w,
                                ultravox_config |->
                                    get_ultravox_config(prompt, w.voice_config,
                                                        "fixie-ai/ultravox", w.temperature) ]
              ELSE /\ pc' = "idle"
                   /\ call' = NoCall
    /\ netlog' = <<>>
    /\ result' = NoResult
    /\ UNCHANGED <<secrets, customer_info, custom_params, call_history, session_ids>>
    /\ UNCHANGED <<fmtVars, voiceVars, pollVars>>

\* The handler's end, lines 456-472, once initiate_call has returned res.
HandlerEnds(res, now) ==
    /\ result' = res
    /\ call_history' = HistoryAfter(call_history, res, call.widgets, now)
    /\ session_ids' = SessionIdsAfter(session_ids, res)
    /\ ui' = [ui EXCEPT !.shown = Append(@, ResultNotice(res))]
    /\ pc' = "idle"

\* Lines 157-171: the POST to the voice-session API and what comes back.
SessionPost(o, now) ==
    /\ pc = "post"
    /\ netlog' = Append(netlog, [ api |-> "ultravox", method |-> "POST",
                                  url |-> ultravox_api_url,
                                  json |-> call.ultravox_config, outcome |-> o ])
    /\ LET step == SessionStep(o)
       IN  IF step.raised
           THEN /\ HandlerEnds(Failure(step.error), now)
                /\ call' = NoCall
           ELSE /\ pc' = "dial"
                /\ call' = call @@ [ ultravox_join_url |-> step.ultravox_join_url,
                                     ultravox_call_id |-> step.ultravox_call_id ]
                /\ UNCHANGED <<call_history, session_ids, result, ui>>
    /\ UNCHANGED <<secrets, customer_info, custom_params>>
    /\ UNCHANGED <<fmtVars, voiceVars, pollVars>>

\* Lines 174-193: calls.create with the TwiML that streams to the join URL.
TwilioCreate(o, now) ==
    /\ pc = "dial"
    /\ netlog' = Append(netlog, [ api |-> "twilio", method |-> "calls.create",
                                  twiml |-> Twiml(call.ultravox_join_url),
                                  to |-> call.widgets.destination_phone,
                                  from_ |-> call.widgets.twilio_phone,
                                  outcome |-> o ])
    /\ HandlerEnds(TwilioStep(o, call.ultravox_call_id), now)
    /\ call' = NoCall
    /\ UNCHANGED <<secrets, customer_info, custom_params>>
    /\ UNCHANGED <<fmtVars, voiceVars, pollVars>>

AppNext ==
    \/ \E k \in ParamKeyInputs, v \in ParamValueInputs : AddParameter(k, v)
    \/ \E i \in 1..MaxParams : RemoveParameter(i)
    \/ \E w \in Widgets : PreviewPrompt(w)
    \/ \E w \in Widgets : InitiateCall(w)
    \/ \E o \in SessionOutcomes, now \in Timestamps : SessionPost(o, now)
    \/ \E o \in TwilioOutcomes, now \in Timestamps : TwilioCreate(o, now)

(***************************************************************************)
(* get_ultravox_config on its own                                          *)
(***************************************************************************)

\* A dict that may or may not hold key k with one of the values vs.
Optional(k, vs) == {<<>>} \cup { [x \in {k} |-> v] : v \in vs }

\* Every voice_config over the four keys the function reads.
VoiceConfigs ==
    { p @@ v @@ i @@ m :
        p \in Optional("provider", {"elevenlabs", "built-in", "ElevenLabs", None}),
        v \in Optional("voice", {"Mark"}),
        i \in Optional("voiceId", {"z3L1naUiX6l4xiMWzigO"}),
        m \in Optional("model", {"eleven_multilingual_v2"}) }

\* The slider's range 0.0 .. 1.0, in tenths.
MaxTemperatureTenths == 10

VoiceArgs ==
    [ system_prompt : {<<"H", "i">>},
      voice_config : VoiceConfigs,
      model : {"fixie-ai/ultravox"},
      temperature : {0, TemperatureTenths, MaxTemperatureTenths} ]

VoiceInit ==
    /\ vc_args \in VoiceArgs
    /\ vc_config = <<>>
    /\ vc_pc = "call"

BuildConfig ==
    /\ vc_pc = "call"
    /\ vc_config' = get_ultravox_config(vc_args.system_prompt, vc_args.voice_config,
                                        vc_args.model, vc_args.temperature)
    /\ vc_pc' = "done"
    /\ UNCHANGED vc_args
    /\ UNCHANGED <<fmtVars, appVars, pollVars>>

(***************************************************************************)
(* fetch_transcript                                                        *)
(***************************************************************************)

poll_interval == 5

\* The loop bound with the division rounded up.
max_iterations_rounded_up(max_wait) == (max_wait + poll_interval - 1) \div poll_interval

\* Line 207: max_wait_seconds // poll_interval (floor division).
max_iterations(max_wait) == max_wait \div poll_interval

TimeoutResult == [success |-> FALSE, error |-> "Max wait time exceeded"]

\* Whether the except clause of line 241 catches what a request raised:
\* ConnectionError and HTTPError are RequestExceptions; what response.json()
\* raises on a body that is no JSON is one or not, depending on the installed
\* requests (o.request_exception).
Caught(o) == o.kind \in {"connection_error", "http_error"}
                \/ (o.kind = "invalid_json" /\ o.request_exception)

\* Line 217: the truth of call_details.get("ended"); None, when the key is
\* absent, is false.
Ended(body) == Get(body, "ended", FALSE)

\* What poll_log keeps of a status response: the error, or whether it said
\* ended and, when it did, the endReason it carried.
StatusSeen(o) ==
    IF o.kind # "ok" THEN o
    ELSE IF Ended(o.body)
         THEN [kind |-> "ok", ended |-> TRUE, endReason |-> Get(o.body, "endReason", None)]
         ELSE [kind |-> "ok", ended |-> FALSE]

\* A failed status query swallowed: the loop goes on to its next iteration.
StatusStepRetrying(o) ==
    IF o.kind # "ok"
    THEN (IF Caught(o) THEN [next |-> "loop"] ELSE [next |-> "raised"])
    ELSE IF Ended(o.body)
         THEN [next |-> "messages", call_details |-> o.body]
         ELSE [next |-> "loop"]

\* Lines 212-217 and 241-245: one status query and what the loop does with it.
StatusStep(o) ==
    IF o.kind # "ok"
    THEN (IF Caught(o) THEN [next |-> "returned", result |-> Failure(o.msg)]
                       ELSE [next |-> "raised"])
    ELSE IF Ended(o.body)
         THEN [next |-> "messages", call_details |-> o.body]
         ELSE [next |-> "loop"]

RolePrefix == <<"M", "E", "S", "S", "A", "G", "E", "_", "R", "O", "L", "E", "_">>
RoleAgent == <<"A", "G", "E", "N", "T">>
RoleUser == <<"U", "S", "E", "R">>
RoleToolCall == <<"T", "O", "O", "L", "_", "C", "A", "L", "L">>
RoleUnknown == <<"U", "N", "K", "N", "O", "W", "N">>

\* Lines 225-226.
MessageRole(message) == StrReplace(Get(message, "role", RoleUnknown), RolePrefix, <<>>)
MessageText(message) == Get(message, "text", <<>>)

\* The test of line 228 without "text and".
KeepsMessageAnyText(message) == MessageRole(message) \in {RoleAgent, RoleUser}

\* Line 228: "if text and role in ['AGENT', 'USER']".
KeepsMessage(message) ==
    MessageText(message) # <<>> /\ MessageRole(message) \in {RoleAgent, RoleUser}

\* Lines 223-233.
RECURSIVE BuildTranscript(_, _, _)
BuildTranscript(messages, i, now) ==
    IF i > Len(messages) THEN <<>>
    ELSE (IF KeepsMessage(messages[i])
          THEN <<[ role |-> MessageRole(messages[i]),
                   text |-> MessageText(messages[i]),
                   timestamp |-> now ]>>
          ELSE <<>>)
         \o BuildTranscript(messages, i + 1, now)

\* The return with endReason read from the messages response instead of
\* call_details.
MessagesStepOwnEndReason(o, details, now) ==
    IF o.kind # "ok"
    THEN (IF Caught(o) THEN [next |-> "returned", result |-> Failure(o.msg)]
                       ELSE [next |-> "raised"])
    ELSE [ next |-> "returned",
           result |-> [ success |-> TRUE,
                        transcript |-> BuildTranscript(Get(o.body, "results", <<>>), 1, now),
                        end_reason |-> Get(o.body, "endReason", None) ] ]

\* Lines 219-239 and 241-245: the messages fetch and the return.
MessagesStep(o, details, now) ==
    IF o.kind # "ok"
    THEN (IF Caught(o) THEN [next |-> "returned", result |-> Failure(o.msg)]
                       ELSE [next |-> "raised"])
    ELSE [ next |-> "returned",
           result |-> [ success |-> TRUE,
                        transcript |-> BuildTranscript(Get(o.body, "results", <<>>), 1, now),
                        end_reason |-> Get(details, "endReason", None) ] ]

MaxPolls == 3
MaxMessages == 2

\* max_wait_seconds: negative, below one interval, and for each number of
\* intervals up to MaxPolls the exact multiple and the largest budget with
\* that many intervals.
WaitBudgets ==
    {-1, poll_interval - 1}
        \cup { poll_interval * k + r : k \in 1..MaxPolls, r \in {0, poll_interval - 1} }

RequestErrors ==
    { [kind |-> "connection_error", msg |-> "ConnectionError: connection refused"],
      [kind |-> "http_error", msg |-> "404 Client Error: Not Found"],
      [kind |-> "invalid_json", msg |-> "Expecting value: line 1 column 1 (char 0)",
       request_exception |-> TRUE],
      [kind |-> "invalid_json", msg |-> "Expecting value: line 1 column 1 (char 0)",
       request_exception |-> FALSE] }

StatusOutcomes ==
    RequestErrors \cup
    { [kind |-> "ok", body |-> b] :
        b \in { <<>>, [ended |-> FALSE], [ended |-> TRUE],
                [ended |-> TRUE, endReason |-> "hangup"] } }

RawMessages ==
    { r @@ t :
        r \in Optional("role", { RolePrefix \o RoleAgent, RolePrefix \o RoleUser,
                                 RolePrefix \o RoleToolCall, RoleUser }),
        t \in Optional("text", { <<>>, <<"h", "i">> }) }

MessageLists == UNION { [1..n -> RawMessages] : n \in 0..MaxMessages }

MessagesOutcomes ==
    RequestErrors \cup { [kind |-> "ok", body |-> <<>>] }
        \cup { [kind |-> "ok", body |-> [results |-> ms]] : ms \in MessageLists }

\* datetime.now().strftime("%H:%M:%S")
TranscriptTimes == {"10:00:00"}

PollInit ==
    /\ max_wait_seconds \in WaitBudgets
    /\ poll_i = 0
    /\ poll_pc = "loop"
    /\ poll_log = <<>>
    /\ call_details = <<>>
    /\ poll_result = NoResult

\* Lines 209-210: the next iteration begins with its sleep.
Sleep ==
    /\ poll_pc = "loop"
    /\ poll_i < max_iterations(max_wait_seconds)
    /\ poll_i' = poll_i + 1
    /\ poll_log' = Append(poll_log, [op |-> "sleep", seconds |-> poll_interval])
    /\ poll_pc' = "status"
    /\ UNCHANGED <<max_wait_seconds, call_details, poll_result>>
    /\ UNCHANGED <<fmtVars, appVars, voiceVars>>

\* Lines 247-250: the loop is exhausted.
Timeout ==
    /\ poll_pc = "loop"
    /\ ~(poll_i < max_iterations(max_wait_seconds))
    /\ poll_result' = TimeoutResult
    /\ poll_pc' = "returned"
    /\ UNCHANGED <<max_wait_seconds, poll_i, poll_log, call_details>>
    /\ UNCHANGED <<fmtVars, appVars, voiceVars>>

\* Lines 213-217: the status query of the iteration.
StatusQuery(o) ==
    /\ poll_pc = "status"
    /\ poll_log' = Append(poll_log, [op |-> "status", outcome |-> StatusSeen(o)])
    /\ LET step == StatusStep(o)
       IN  /\ poll_pc' = step.next
           /\ poll_result' = IF step.next = "returned" THEN step.result ELSE poll_result
           /\ call_details' = IF step.next = "messages" THEN step.call_details
                              ELSE call_details
    /\ UNCHANGED <<max_wait_seconds, poll_i>>
    /\ UNCHANGED <<fmtVars, appVars, voiceVars>>

\* Lines 218-239: the fetch of the message list and the transcript.
MessagesFetch(o, now) ==
    /\ poll_pc = "messages"
    /\ poll_log' = Append(poll_log, [op |-> "messages", outcome |-> o])
    /\ LET step == MessagesStep(o, call_details, now)
       IN  /\ poll_pc' = step.next
           /\ poll_result' = IF step.next = "returned" THEN step.result ELSE poll_result
    /\ UNCHANGED <<max_wait_seconds, poll_i, call_details>>
    /\ UNCHANGED <<fmtVars, appVars, voiceVars>>

PollNext ==
    \/ Sleep
    \/ Timeout
    \/ \E o \in StatusOutcomes : StatusQuery(o)
    \/ \E o \in MessagesOutcomes, now \in TranscriptTimes : MessagesFetch(o, now)

(***************************************************************************)
(* Specifications                                                          *)
(***************************************************************************)

VoiceIdle ==
    /\ vc_args = <<>>
    /\ vc_config = <<>>
    /\ vc_pc = "done"

PollIdle ==
    /\ max_wait_seconds = 0
    /\ poll_i = 0
    /\ poll_pc = "returned"
    /\ poll_log = <<>>
    /\ call_details = <<>>
    /\ poll_result = NoResult

\* The dashboard session: main and initiate_call.
Init == AppInit /\ FmtIdle /\ VoiceIdle /\ PollIdle

Next == AppNext

Spec == Init /\ [][Next]_vars

\* get_formatted_prompt on its own, over templates and mappings.
InitFormat == FmtInit /\ AppIdle /\ VoiceIdle /\ PollIdle

SpecFormat == InitFormat /\ [][FormatPrompt]_vars

\* get_ultravox_config on its own, over voice configurations.
InitVoice == VoiceInit /\ FmtIdle /\ AppIdle /\ PollIdle

SpecVoice == InitVoice /\ [][BuildConfig]_vars

\* fetch_transcript on its own, over wait budgets and API responses.
InitPoll == PollInit /\ FmtIdle /\ AppIdle /\ VoiceIdle

SpecPoll == InitPoll /\ [][PollNext]_vars

(***************************************************************************)
(* Claims about prompt formatting (checked under SpecFormat)               *)
(***************************************************************************)

\* The single-pass simultaneous substitution of template t under mapping m:
\* scanning t once, left to right, an occurrence of {{k}} for a key k of m
\* becomes str(m[k]) and is not looked at again; everything else, the
\* placeholders of absent keys included, is copied.
RECURSIVE SimFrom(_, _, _)
SimFrom(t, m, i) ==
    IF i > Len(t) THEN <<>>
    ELSE LET hits == { j \in 1..Len(m) : OccursAt(t, i, Placeholder(m[j].key)) }
         IN  IF hits = {}
             THEN <<t[i]>> \o SimFrom(t, m, i + 1)
             ELSE LET j == CHOOSE h \in hits : TRUE
                  IN  PyStr(m[j].value) \o SimFrom(t, m, i + Len(Placeholder(m[j].key)))

SimSubst(t, m) == SimFrom(t, m, 1)

Range(f) == { f[i] : i \in DOMAIN f }

\* The same dict in every insertion order.
IterationOrders(d) == { p \in [1..Len(d) -> Range(d)] : Range(p) = Range(d) }

\* C3: for all mappings m and templates t, the output has every occurrence of
\* {{k}}, k a key of m, replaced with str(m[k]), and every placeholder of an
\* absent key left as it is: the output is the simultaneous substitution.
C3_EveryPlaceholderReplaced ==
    fmt_pc = "done" => formatted_prompt = SimSubst(prompt_template, customer_data)

\* C4: substitution is not recursive and does not depend on the order of the
\* keys: for every iteration order of the mapping the output is the single-pass
\* simultaneous substitution of the original template.
C4_NotRecursiveAnyOrder ==
    fmt_pc = "done" =>
        \A p \in IterationOrders(customer_data) :
            get_formatted_prompt(prompt_template, p)
                = SimSubst(prompt_template, customer_data)

(***************************************************************************)
(* Claims about the dashboard session (checked under Spec)                 *)
(***************************************************************************)

\* The voice-session API confirmed: a success status, JSON, a non-empty joinUrl.
SessionConfirmed(e) ==
    /\ e.api = "ultravox"
    /\ e.outcome.kind = "ok"
    /\ Truthy(Get(e.outcome.body, "joinUrl", None))

\* The telephony API confirmed the call.
TelephonyConfirmed(e) == e.api = "twilio" /\ e.outcome.kind = "ok"

\* The error of a request that did not confirm.
StepError(e) == IF e.outcome.kind # "ok" THEN e.outcome.msg ELSE NoJoinUrlError

IsPrefix(a, b) == Len(a) <= Len(b) /\ SubSeq(b, 1, Len(a)) = a

\* C1: call-record creation is all-or-nothing. A step that changes
\* call_history appends one record and is the return of an initiate_call
\* whose session POST and telephony calls.create both succeeded; an
\* initiate_call in which a step failed returns success=False with the error
\* of that step and leaves call_history exactly as it was.
C1_AllOrNothing ==
    [][ /\ (call_history' # call_history =>
                /\ Len(call_history') = Len(call_history) + 1
                /\ IsPrefix(call_history, call_history')
                /\ result'.success
                /\ Len(netlog') = 2
                /\ SessionConfirmed(netlog'[1])
                /\ TelephonyConfirmed(netlog'[2]))
        /\ ((pc # "idle" /\ pc' = "idle") =>
                LET last == netlog'[Len(netlog')]
                IN  IF SessionConfirmed(last) \/ TelephonyConfirmed(last)
                    THEN result'.success
                    ELSE /\ result' = [success |-> FALSE, error |-> StepError(last)]
                         /\ call_history' = call_history)
      ]_vars

\* C1 witness: the telephony step failed after a successful session creation,
\* in a session that already holds a record.
C1_Witness ==
    /\ pc = "idle"
    /\ Len(netlog) = 2
    /\ SessionConfirmed(netlog[1])
    /\ netlog[2].outcome.kind = "rest_error"
    /\ result = [success |-> FALSE, error |-> netlog[2].outcome.msg]
    /\ Len(call_history) = 1

RequiredOrder == <<"TWILIO_ACCOUNT_SID", "TWILIO_AUTH_TOKEN", "ULTRAVOX_API_KEY",
                   "ELEVENLABS_API_KEY">>

Unset(s, n) == s[n] = None \/ s[n] = ""

\* The unset required secrets, in the fixed order.
UnsetRequired(s) == SelectSeq(RequiredOrder, LAMBDA n : Unset(s, n))

RequiredMissing == \E n \in RequiredNames : Unset(secrets, n)

\* C2: with a required secret absent, 'Initiate Call' reports the missing
\* names, initiate_call is never invoked (no request is sent, nothing is
\* returned) and call_history stays empty; with the four required secrets set,
\* 'Initiate Call' invokes initiate_call whatever optional keys are missing.
C2_RefusedWhenRequiredMissing ==
    /\ RequiredMissing =>
            /\ pc = "idle"
            /\ call = NoCall
            /\ netlog = <<>>
            /\ result = NoResult
            /\ call_history = <<>>
            /\ ui.button = "initiate" =>
                    /\ ui.shown # <<>>
                    /\ ui.shown[1] = [kind |-> "error_missing",
                                      names |-> UnsetRequired(secrets)]
    /\ (~RequiredMissing /\ ui.button = "initiate") =>
            (pc \in {"post", "dial"} \/ result # NoResult)

\* C2 witness: 'Initiate Call' pressed with two required secrets and an
\* optional key missing.
C2_Witness ==
    /\ ui.button = "initiate"
    /\ Len(UnsetRequired(secrets)) = 2
    /\ secrets["OPENAI_API_KEY"] = None

\* C9: the required-missing list is the unset (absent or empty) required
\* secrets in the fixed order, at the status display and at 'Initiate Call'
\* alike: all four names when none is configured, empty when all four are.
C9_MissingListInFixedOrder ==
    /\ ui.required_status = UnsetRequired(secrets)
    /\ (\A n \in RequiredNames : Unset(secrets, n)) => ui.required_status = RequiredOrder
    /\ (\A n \in RequiredNames : ~Unset(secrets, n)) => ui.required_status = <<>>
    /\ (ui.button = "initiate" /\ ui.required_status # <<>>) =>
            ui.shown[1].names = ui.required_status

\* C9 witness: one required secret empty, one absent, the other two set, and
\* 'Initiate Call' pressed.
C9_Witness ==
    /\ secrets["TWILIO_AUTH_TOKEN"] = ""
    /\ secrets["ELEVENLABS_API_KEY"] = None
    /\ secrets["TWILIO_ACCOUNT_SID"] = "set"
    /\ secrets["ULTRAVOX_API_KEY"] = "set"
    /\ ui.button = "initiate"
    /\ ui.required_status = <<"TWILIO_AUTH_TOKEN", "ELEVENLABS_API_KEY">>

Count(log, api) == Cardinality({ i \in 1..Len(log) : log[i].api = api })

\* C10: within one initiate_call at most one POST and at most one calls.create
\* are sent; calls.create comes second, after a POST that returned success and
\* a non-empty joinUrl, and streams to exactly that joinUrl; a POST that fails
\* or brings no joinUrl is followed by no telephony call and success=False.
C10_OrderedNoRetry ==
    /\ Count(netlog, "ultravox") <= 1
    /\ Count(netlog, "twilio") <= 1
    /\ \A i \in 1..Len(netlog) :
            netlog[i].api = "twilio" =>
                /\ i = 2
                /\ SessionConfirmed(netlog[1])
                /\ netlog[i].twiml.Response.Connect.Stream.url
                        = netlog[1].outcome.body["joinUrl"]
    /\ pc = "dial" => (Len(netlog) = 1 /\ SessionConfirmed(netlog[1]))
    /\ pc = "post" => netlog = <<>>
    /\ (netlog # <<>> /\ netlog[1].api = "ultravox" /\ ~SessionConfirmed(netlog[1])) =>
            /\ Len(netlog) = 1
            /\ pc = "idle"
            /\ result = [success |-> FALSE, error |-> StepError(netlog[1])]

\* C10 witness: a completed initiate_call that sent the POST and then the
\* telephony call to the second join URL.
C10_Witness ==
    /\ pc = "idle"
    /\ Len(netlog) = 2
    /\ netlog[1].outcome.body["joinUrl"] = "wss://join/2"
    /\ netlog[2].twiml.Response.Connect.Stream.url = "wss://join/2"
    /\ result.success

(***************************************************************************)
(* Claims about get_ultravox_config (checked under SpecVoice)              *)
(***************************************************************************)

IsElevenLabs(vc) == "provider" \in DOMAIN vc /\ vc["provider"] = "elevenlabs"

\* C8: the voice fields of the session request are mutually exclusive. With
\* provider 'elevenlabs' voice is null and externalVoice.elevenLabs.voiceId is
\* set (to the configured id when there is one); with any other provider, or
\* none, voice is the configured built-in name (a default name when none is
\* configured) and the request has no externalVoice field.
C8_VoiceFieldsExclusive ==
    vc_pc = "done" =>
        LET vc == vc_args.voice_config
        IN  IF IsElevenLabs(vc)
            THEN /\ "voice" \in DOMAIN vc_config => vc_config["voice"] = None
                 /\ "externalVoice" \in DOMAIN vc_config
                 /\ Truthy(vc_config["externalVoice"].elevenLabs.voiceId)
                 /\ "voiceId" \in DOMAIN vc =>
                        vc_config["externalVoice"].elevenLabs.voiceId = vc["voiceId"]
            ELSE /\ "externalVoice" \notin DOMAIN vc_config
                 /\ "voice" \in DOMAIN vc_config
                 /\ Truthy(vc_config["voice"])
                 /\ "voice" \in DOMAIN vc => vc_config["voice"] = vc["voice"]

\* C8 witness: provider elevenlabs with a built-in voice name also configured.
C8_Witness ==
    /\ vc_pc = "done"
    /\ IsElevenLabs(vc_args.voice_config)
    /\ "voice" \in DOMAIN vc_args.voice_config
    /\ "externalVoice" \in DOMAIN vc_config

(***************************************************************************)
(* Claims about fetch_transcript (checked under SpecPoll)                  *)
(***************************************************************************)

StatusQueries == { i \in 1..Len(poll_log) : poll_log[i].op = "status" }
Sleeps == { i \in 1..Len(poll_log) : poll_log[i].op = "sleep" }
Requests == { i \in 1..Len(poll_log) : poll_log[i].op \in {"status", "messages"} }

NotEnded(i) == poll_log[i].outcome = [kind |-> "ok", ended |-> FALSE]

TransportFailure(i) == poll_log[i].outcome.kind \in {"connection_error", "http_error"}

\* C5: fetch_transcript sends at most max_wait_seconds // 5 status queries,
\* each right after one 5-second sleep; when that many queries have all
\* answered "not ended" it returns the timeout failure and has sent nothing
\* else; the timeout failure is returned in no other case, in particular not
\* after a transport error; with max_wait_seconds < 5 nothing is sent at all.
C5_BoundedPoll ==
    LET n == Cardinality(StatusQueries)
    IN  /\ n = 0 \/ n * 5 <= max_wait_seconds
        /\ \A i \in StatusQueries :
                i > 1 /\ poll_log[i - 1] = [op |-> "sleep", seconds |-> 5]
        /\ \A i \in Sleeps : i < Len(poll_log) => poll_log[i + 1].op = "status"
        /\ (/\ poll_pc \in {"loop", "returned"}
            /\ (n + 1) * 5 > max_wait_seconds
            /\ \A i \in StatusQueries : NotEnded(i)) =>
                /\ Len(poll_log) = 2 * n
                /\ poll_pc = "returned" => poll_result = TimeoutResult
        /\ poll_result = TimeoutResult =>
                /\ poll_pc = "returned"
                /\ (n + 1) * 5 > max_wait_seconds
                /\ Len(poll_log) = 2 * n
                /\ \A i \in StatusQueries : NotEnded(i)
        /\ (\E i \in Requests : poll_log[i].outcome.kind # "ok") =>
                poll_result # TimeoutResult
        /\ max_wait_seconds < 5 => poll_log = <<>>

\* C5 witness: the timeout after three unsuccessful polls of a 19-second budget.
C5_Witness ==
    /\ max_wait_seconds = 19
    /\ poll_result = TimeoutResult
    /\ Cardinality(StatusQueries) = 3
    /\ Cardinality(Sleeps) = 3

\* C6: a transport failure of a status query or of the messages fetch is the
\* last thing fetch_transcript does: it has returned success=False with that
\* failure's message, and no sleep or request follows the failed one.
C6_TransportFailureAborts ==
    \A i \in Requests :
        TransportFailure(i) =>
            /\ i = Len(poll_log)
            /\ poll_pc = "returned"
            /\ poll_result = [success |-> FALSE, error |-> poll_log[i].outcome.msg]

\* C6 witness: the messages fetch fails after the second status query
\* reported ended.
C6_Witness ==
    /\ Len(poll_log) = 5
    /\ poll_log[5].op = "messages"
    /\ poll_log[5].outcome.kind = "connection_error"
    /\ poll_pc = "returned"
    /\ ~poll_result.success

\* The role with one leading MESSAGE_ROLE_ removed.
StripPrefix(role) ==
    IF OccursAt(role, 1, RolePrefix)
    THEN SubSeq(role, Len(RolePrefix) + 1, Len(role))
    ELSE role

\* The messages the claim keeps: a role that is AGENT or USER once the prefix
\* is stripped, and a text that is there and not empty.
Kept(m) ==
    /\ "role" \in DOMAIN m
    /\ StripPrefix(m["role"]) \in {RoleAgent, RoleUser}
    /\ "text" \in DOMAIN m
    /\ m["text"] # <<>>

RoleAndText(entries) ==
    [i \in 1..Len(entries) |-> [role |-> entries[i].role, text |-> entries[i].text]]

ExpectedTranscript(raw) ==
    LET kept == SelectSeq(raw, Kept)
    IN  [i \in 1..Len(kept) |-> [role |-> StripPrefix(kept[i]["role"]),
                                 text |-> kept[i]["text"]]]

\* The raw message list of the messages response that ends a successful call.
RawResults == Get(poll_log[Len(poll_log)].outcome.body, "results", <<>>)

\* C7: the transcript of a successful fetch_transcript holds exactly the raw
\* messages whose role, prefix stripped, is AGENT or USER and whose text is
\* not empty, in their original order, with the stripped role; every other
\* message (another role, no role, empty or missing text) is dropped.
C7_TranscriptFiltering ==
    (poll_pc = "returned" /\ poll_result.success) =>
        RoleAndText(poll_result.transcript) = ExpectedTranscript(RawResults)

\* C7 witness: a raw list of an agent message with empty text and a user
\* message with text; only the second is in the transcript.
C7_Witness ==
    /\ poll_pc = "returned"
    /\ poll_result.success
    /\ RawResults = << [role |-> RolePrefix \o RoleAgent, text |-> <<>>],
                       [role |-> RolePrefix \o RoleUser, text |-> <<"h", "i">>] >>
    /\ Len(poll_result.transcript) = 1
    /\ poll_result.transcript[1].role = RoleUser

\* The i-th entry of poll_log is a status response that reported ended.
EndedAt(i) ==
    /\ i \in StatusQueries
    /\ poll_log[i].outcome.kind = "ok"
    /\ poll_log[i].outcome.ended

MessagesFetches == { i \in 1..Len(poll_log) : poll_log[i].op = "messages" }

\* C11: the first status response that reports ended stops the polling: no
\* status query or sleep comes after it, exactly one fetch of the message list
\* follows it, and a fetch that succeeds returns success=True with the
\* filtered transcript and the endReason of that same status response; the
\* message list is fetched only right after an ended status.
C11_EndedStopsPolling ==
    /\ \A i \in 1..Len(poll_log) :
            EndedAt(i) =>
                /\ \A j \in StatusQueries \cup Sleeps : j < i \/ j = i
                /\ poll_pc \in {"messages", "returned", "raised"}
                /\ poll_pc = "messages" => Len(poll_log) = i
                /\ poll_pc \in {"returned", "raised"} =>
                        (Len(poll_log) = i + 1 /\ poll_log[i + 1].op = "messages")
    /\ Cardinality(MessagesFetches) <= 1
    /\ \A j \in MessagesFetches : j > 1 /\ EndedAt(j - 1)
    /\ \A j \in MessagesFetches :
            poll_log[j].outcome.kind = "ok" =>
                /\ poll_pc = "returned"
                /\ poll_result.success
                /\ poll_result.end_reason = poll_log[j - 1].outcome.endReason
                /\ RoleAndText(poll_result.transcript)
                        = ExpectedTranscript(Get(poll_log[j].outcome.body, "results", <<>>))
    /\ (poll_pc = "returned" /\ poll_result.success) =>
            (MessagesFetches # {} /\ poll_log[Len(poll_log)].op = "messages")

\* C11 witness: the second status response reports ended with endReason
\* "hangup"; one messages fetch follows and the call returns that endReason
\* with a one-entry transcript.
C11_Witness ==
    /\ poll_pc = "returned"
    /\ Len(poll_log) = 5
    /\ ~EndedAt(2)
    /\ EndedAt(4)
    /\ poll_log[4].outcome.endReason = "hangup"
    /\ poll_log[5].op = "messages"
    /\ poll_result.success
    /\ poll_result.end_reason = "hangup"
    /\ Len(poll_result.transcript) = 1

\* A step in which the 'Initiate Call' handler ends with a successful result.
SuccessfulInitiation == pc # "idle" /\ pc' = "idle" /\ result'.success

\* C12: the call history is append-only. Across add parameter, remove
\* parameter, preview prompt and initiate call, no record is removed,
\* reordered or modified: a successful initiation appends exactly one record
\* at the end, with status "initiated", the session id of that initiation's
\* session response and the call id of its telephony response; every other
\* step leaves the list as it was.
C12_HistoryAppendOnly ==
    [][ IF SuccessfulInitiation
        THEN /\ Len(call_history') = Len(call_history) + 1
             /\ SubSeq(call_history', 1, Len(call_history)) = call_history
             /\ LET record == call_history'[Len(call_history')]
                IN  /\ record.status = "initiated"
                    /\ record.call_id = Get(netlog'[1].outcome.body, "callId", None)
                    /\ record.call_id = result'.ultravox_call_id
                    /\ record.twilio_sid = netlog'[2].outcome.sid
                    /\ record.twilio_sid = result'.twilio_call_sid
        ELSE call_history' = call_history
      ]_vars

\* C12 witness: two initiations succeeded, the second with a session response
\* that carried no callId, and a preview came after them with a custom
\* parameter in place; both records are where they were appended.
C12_Witness ==
    /\ pc = "idle"
    /\ ui.button = "preview"
    /\ custom_params # <<>>
    /\ Len(call_history) = 2
    /\ call_history[1].call_id = "call-1"
    /\ call_history[2].call_id = None
    /\ call_history[1].status = "initiated"
    /\ call_history[2].twilio_sid = "CA1"

====
